---- MODULE Spec2Model ----
(***************************************************************************)
(* A model of the moonlapse scaffold: the file utility                     *)
(* (src/src/filesystem/cat.py), the bootstrap and its dispatchers          *)
(* (src/main.py) and the prompt request object (src/src/prompt.py).        *)
(*                                                                         *)
(* Text is a sequence of one-character strings, so that counting,          *)
(* replacing, lower-casing and trimming are computed as the code computes  *)
(* them.  Every component has its own variables, its own initial           *)
(* condition and its own specification; a specification leaves the other   *)
(* components in their quiet state.                                        *)
(***************************************************************************)
EXTENDS Integers, Sequences, FiniteSets, TLC

(***************************************************************************)
(* Bounds of the model.                                                    *)
(***************************************************************************)
\* longest file content, and longest text searched for, of the file utility
MaxLen == 2
\* longest replacement text of the file utility
MaxNewLen == 1
\* how far from 0 and from a limit the sizes and positions tried lie
Near == 2
\* longest command-line token given to the bootstrap
MaxTokLen == 2
\* most command-line tokens after the script's name
MaxArgc == 2
\* most positional and most keyword arguments of a Bootstrap call
MaxArgs == 2
\* most Bootstrap calls the main process makes one after the other
MaxCalls == 2
\* most arguments given to the parallel dispatch
MaxTasks == 3
\* the worker processes of the pool
PoolSize == 2
\* most positional arguments given to curry_main
MaxCurryArgs == 2

(***************************************************************************)
(* Text.                                                                   *)
(***************************************************************************)
Chars == {"a", "b"}

Texts(n) == UNION {[1..k -> Chars] : k \in 0..n}

\* whether sub is found in s at position i
MatchAt(s, sub, i) ==
    /\ i + Len(sub) - 1 <= Len(s)
    /\ SubSeq(s, i, i + Len(sub) - 1) = sub

RECURSIVE CountFrom(_, _, _)
CountFrom(s, sub, i) ==
    IF i + Len(sub) - 1 > Len(s) THEN 0
    ELSE IF MatchAt(s, sub, i) THEN 1 + CountFrom(s, sub, i + Len(sub))
    ELSE CountFrom(s, sub, i + 1)

\* str.count: the number of non-overlapping occurrences, scanning from the
\* left; the empty text is found before every character and at the end
Count(s, sub) ==
    IF sub = <<>> THEN Len(s) + 1 ELSE CountFrom(s, sub, 1)

RECURSIVE ReplaceFrom(_, _, _, _)
ReplaceFrom(s, old, new, i) ==
    IF i > Len(s) THEN <<>>
    ELSE IF MatchAt(s, old, i) THEN new \o ReplaceFrom(s, old, new, i + Len(old))
    ELSE <<s[i]>> \o ReplaceFrom(s, old, new, i + 1)

RECURSIVE Interleave(_, _, _)
Interleave(s, new, i) ==
    IF i > Len(s) THEN new
    ELSE new \o <<s[i]>> \o Interleave(s, new, i + 1)

\* str.replace: every non-overlapping occurrence, scanning from the left
Replace(s, old, new) ==
    IF old = <<>> THEN Interleave(s, new, 1) ELSE ReplaceFrom(s, old, new, 1)

(***************************************************************************)
(* The file utility: state.                                                *)
(***************************************************************************)
VARIABLES
    fs,           \* the directory: path -> [exists, content]
    fs0,          \* the directory as it was when the run began
    entry,        \* what was invoked: "cli", "replace", "create_or_replace"
    pc,           \* the position of the run
    sys_argv,     \* the command line, script name first
    fileName, old_content, newContent,   \* replace_text_in_file's parameters
    source, destination,                 \* create_or_replace_file's parameters
    content,      \* replace_text_in_file's local: the text read
    exitStatus,   \* the status the process ended with, as a set: empty while it runs
    raised,       \* the exception in flight or that ended the run
    profile       \* the lines appended to the shell profile

fileVars == <<fs, fs0, entry, pc, sys_argv, fileName, old_content, newContent,
              source, destination, content, exitStatus, raised, profile>>

VARIABLES
    rdEntry,      \* the function called: "load" or "tree"
    rdPc,         \* the position of the call
    opened,       \* whether the file was read, or the files were listed
    lines,        \* load_file_content's local: the lines read
    start_line, end_line,   \* load_file_content's parameters
    output,       \* get_project_tree's local: the split listing
    tracked,      \* the number of files the version control tracks
    rdRet,        \* what the call returned: [kind, val]
    rdExit        \* the status the process ended with, as a set

readVars == <<rdEntry, rdPc, opened, lines, start_line, end_line, output, tracked,
              rdRet, rdExit>>

VARIABLES
    prPc,         \* the position of the prompt object's caller
    promptArg,    \* the text the constructor was given
    prompt,       \* Prompt.prompt
    embedding,    \* Prompt.embedding: [kind |-> "unset" | "None" | "vector"]
    embedInput,   \* the text sent to the embeddings endpoint
    embedReply,   \* what the embeddings endpoint did
    chatReply,    \* what the chat-completions endpoint did
    response,     \* what generate_response returned: [kind, val]
    artifacts,    \* the JSON documents written, by file name
    prRaised      \* the exception that left a method of the object

promptVars == <<prPc, promptArg, prompt, embedding, embedInput, embedReply, chatReply,
                response, artifacts, prRaised>>

VARIABLES
    dirs,         \* the directories that exist beside the script
    dirs0,        \* the directories that existed when the process began
    sysArgv,      \* sys.argv
    bpc,          \* per process: the position of its Bootstrap call
    frame,        \* per process: the call's args, kwargs, loop index, paths
    lock,         \* per process: whether its _lock is held
    result,       \* per process: what its Bootstrap call returned
    err,          \* per process: the exception its Bootstrap call raised
    calls,        \* the Bootstrap calls the main process has made
    ppc,          \* the position of run_main_parallel in the main process
    parArgs,      \* run_main_parallel's parameter
    tasks,        \* the submissions: argument, state, worker, runs, exception
    collected,    \* the submissions whose future.result() was taken
    logged        \* the submissions whose exception was logged

bootVars == <<dirs, dirs0, sysArgv, bpc, frame, lock, result, err,
              calls, ppc, parArgs, tasks, collected, logged>>

VARIABLES
    cpc,          \* the position of curry_main in the main process
    curArgs,      \* curry_main's positional arguments
    curKwargs,    \* curry_main's keyword arguments
    combined      \* combined_logger, combined_paths, combined_arguments, combined_misc_args

curryVars == <<cpc, curArgs, curKwargs, combined>>

notFileVars == <<readVars, promptVars, bootVars, curryVars>>

notReadVars == <<fileVars, promptVars, bootVars, curryVars>>

notPromptVars == <<fileVars, readVars, bootVars, curryVars>>

\* what a step of main or of run_main_parallel leaves alone
notBootVars == <<fileVars, readVars, promptVars, curryVars>>

\* what a step of curry_main's own body leaves alone
notCurryVars == <<fileVars, readVars, promptVars>>

Paths == {<<"a">>, <<"b">>}

NoFile == [exists |-> FALSE, content |-> <<>>]

File(c) == [exists |-> TRUE, content |-> c]

FileStates == {NoFile} \cup {File(c) : c \in Texts(MaxLen)}

ScriptName == <<"c", "a", "t">>

\* no exit status: the process runs
NoStatus == {}

NoText == <<>>

\* the command lines: no argument, one, two paths, two paths and a text
CommandLines ==
    {<<ScriptName>>}
    \cup {<<ScriptName, p>> : p \in Paths}
    \cup {<<ScriptName, p, q>> : p \in Paths, q \in Paths}
    \cup {<<ScriptName, p, q, t>> : p \in Paths, q \in Paths, t \in Texts(MaxNewLen)}

FileQuiet ==
    /\ entry = "none"
    /\ pc = "idle"
    /\ sys_argv = <<ScriptName>>
    /\ fileName = NoText /\ old_content = NoText /\ newContent = NoText
    /\ source = NoText /\ destination = NoText
    /\ content = NoText
    /\ exitStatus = NoStatus
    /\ raised = "none"
    /\ profile = <<>>

FileInit ==
    /\ fs \in [Paths -> FileStates]
    /\ fs0 = fs
    /\ FileQuiet

FileIdle ==
    /\ fs = [p \in Paths |-> NoFile]
    /\ fs0 = fs
    /\ FileQuiet

(***************************************************************************)
(* The file utility: operations.                                           *)
(***************************************************************************)

\* the process ends with status s
Exit(s) ==
    /\ pc' = "exited"
    /\ exitStatus' = {s}

\* an exception e leaves the function: the command line's try block catches
\* one raised inside it and exits with -1, the interpreter ends an uncaught
\* one with status 1, and a direct caller receives it
Raise(e, caught) ==
    /\ raised' = e
    /\ IF entry = "cli"
       THEN Exit(IF caught THEN -1 ELSE 1)
       ELSE pc' = "raised" /\ UNCHANGED exitStatus

\* the call replace_text_in_file(f, old, new)
CallReplace(f, old, new) ==
    /\ pc = "idle"
    /\ entry' = "replace"
    /\ fileName' = f /\ old_content' = old /\ newContent' = new
    /\ pc' = "replace_read"
    /\ UNCHANGED <<fs, fs0, sys_argv, source, destination, content,
                   exitStatus, raised, profile>>
    /\ UNCHANGED notFileVars

\* with open(fileName, 'r'): content = file.read()
ReplaceRead ==
    /\ pc = "replace_read"
    /\ IF fs[fileName].exists
       THEN /\ content' = fs[fileName].content
            /\ pc' = "replace_count"
            /\ UNCHANGED <<exitStatus, raised>>
       ELSE /\ Raise("FileNotFoundError", TRUE)
            /\ UNCHANGED content
    /\ UNCHANGED <<fs, fs0, entry, sys_argv, fileName, old_content, newContent,
                   source, destination, profile>>
    /\ UNCHANGED notFileVars

\* a wrong test: only a text that is not found at all is refused
AmbiguousOnlyWhenAbsent(text, old) == Count(text, old) = 0

\* count != 1
Ambiguous(text, old) == Count(text, old) # 1

\* count = content.count(old_content); if count != 1: exit(-1)
ReplaceCount ==
    /\ pc = "replace_count"
    /\ IF Ambiguous(content, old_content)
       THEN Exit(-1)
       ELSE pc' = "replace_write" /\ UNCHANGED exitStatus
    /\ UNCHANGED <<fs, fs0, entry, sys_argv, fileName, old_content, newContent,
                   source, destination, content, raised, profile>>
    /\ UNCHANGED notFileVars

\* modified_content = content.replace(...); open(fileName, 'w'), write
ReplaceWrite ==
    /\ pc = "replace_write"
    /\ fs' = [fs EXCEPT ![fileName] = File(Replace(content, old_content, newContent))]
    /\ pc' = IF entry = "cli" THEN "cli_main" ELSE "returned"
    /\ UNCHANGED <<fs0, entry, sys_argv, fileName, old_content, newContent,
                   source, destination, content, exitStatus, raised, profile>>
    /\ UNCHANGED notFileVars

\* the call create_or_replace_file(s, d)
CallCreateOrReplace(s, d) ==
    /\ pc = "idle"
    /\ entry' = "create_or_replace"
    /\ source' = s /\ destination' = d
    /\ pc' = "cor_remove"
    /\ UNCHANGED <<fs, fs0, sys_argv, fileName, old_content, newContent,
                   content, exitStatus, raised, profile>>
    /\ UNCHANGED notFileVars

\* if os.path.exists(destination): os.remove(destination)
CorRemove ==
    /\ pc = "cor_remove"
    /\ fs' = IF fs[destination].exists
             THEN [fs EXCEPT ![destination] = NoFile]
             ELSE fs
    /\ pc' = "cor_move"
    /\ UNCHANGED <<fs0, entry, sys_argv, fileName, old_content, newContent,
                   source, destination, content, exitStatus, raised, profile>>
    /\ UNCHANGED notFileVars

\* a wrong move: the source is copied and stays
CopyFile(f, s, d) == [f EXCEPT ![d] = f[s]]

\* shutil.move(s, d) of an existing file s: a rename
MoveFile(f, s, d) ==
    IF s = d THEN f ELSE [f EXCEPT ![d] = f[s], ![s] = NoFile]

\* shutil.move(source, destination); except Exception: raise
CorMove ==
    /\ pc = "cor_move"
    /\ IF fs[source].exists
       THEN /\ fs' = MoveFile(fs, source, destination)
            /\ pc' = IF entry = "cli" THEN "cli_dispatch" ELSE "returned"
            /\ UNCHANGED <<exitStatus, raised>>
       ELSE /\ Raise("FileNotFoundError", FALSE)
            /\ UNCHANGED fs
    /\ UNCHANGED <<fs0, entry, sys_argv, fileName, old_content, newContent,
                   source, destination, content, profile>>
    /\ UNCHANGED notFileVars

\* the script is run with the command line argv: the usage check, then
\* create_or_replace_file(sys.argv[1], sys.argv[2])
CliStart(argv) ==
    /\ pc = "idle"
    /\ entry' = "cli"
    /\ sys_argv' = argv
    /\ IF Len(argv) < 3
       THEN /\ Exit(1)
            /\ UNCHANGED <<source, destination>>
       ELSE /\ source' = argv[2] /\ destination' = argv[3]
            /\ pc' = "cor_remove"
            /\ UNCHANGED exitStatus
    /\ UNCHANGED <<fs, fs0, fileName, old_content, newContent, content,
                   raised, profile>>
    /\ UNCHANGED notFileVars

\* if len(sys.argv) == 4: replace_text_in_file(argv[1], argv[2], argv[3])
CliDispatch ==
    /\ pc = "cli_dispatch"
    /\ IF Len(sys_argv) = 4
       THEN /\ fileName' = sys_argv[2]
            /\ old_content' = sys_argv[3]
            /\ newContent' = sys_argv[4]
            /\ pc' = "replace_read"
       ELSE /\ pc' = "cli_main"
            /\ UNCHANGED <<fileName, old_content, newContent>>
    /\ UNCHANGED <<fs, fs0, entry, sys_argv, source, destination, content,
                   exitStatus, raised, profile>>
    /\ UNCHANGED notFileVars

ProfileLines == <<"OLLAMA_HOST", "OLLAMA_ORIGINS", "OLLAMA_PORT", "comment", "alias">>

\* main(): the five lines are appended to the shell profile, then "source"
\* is run as a program: where no such program exists the run ends with an
\* uncaught FileNotFoundError, where one exists the script ends normally
CliMain ==
    /\ pc = "cli_main"
    /\ profile' = profile \o ProfileLines
    /\ \/ raised' = "FileNotFoundError" /\ Exit(1)
       \/ raised' = raised /\ Exit(0)
    /\ UNCHANGED <<fs, fs0, entry, sys_argv, fileName, old_content, newContent,
                   source, destination, content>>
    /\ UNCHANGED notFileVars

FileNext ==
    \/ \E f \in Paths, old \in Texts(MaxLen), new \in Texts(MaxNewLen) :
          CallReplace(f, old, new)
    \/ ReplaceRead
    \/ ReplaceCount
    \/ ReplaceWrite
    \/ \E s \in Paths, d \in Paths : CallCreateOrReplace(s, d)
    \/ CorRemove
    \/ CorMove
    \/ \E argv \in CommandLines : CliStart(argv)
    \/ CliDispatch
    \/ CliMain

(***************************************************************************)
(* The file utility: claims.                                               *)
(***************************************************************************)

\* create_or_replace_file has returned to its caller
CorReturned ==
    \/ entry = "create_or_replace" /\ pc = "returned"
    \/ entry = "cli" /\ pc = "cli_dispatch"

C2_CliReplacesInPlace ==
    (/\ entry = "cli"
     /\ Len(sys_argv) = 4
     /\ pc = "exited"
     /\ fs0[sys_argv[2]].exists
     /\ Count(fs0[sys_argv[2]].content, sys_argv[3]) = 1)
    => fs[sys_argv[2]] =
          File(Replace(fs0[sys_argv[2]].content, sys_argv[3], sys_argv[4]))

\* C4: create_or_replace_file with an existing source and another path as
\* destination does not raise, and once it has returned the destination
\* holds what the source held and the source is gone.
C4_MoveReplacesDestination ==
    (/\ entry \in {"create_or_replace", "cli"}
     /\ Len(source) > 0
     /\ fs0[source].exists
     /\ source # destination)
    => /\ pc # "raised"
       /\ pc \in {"cor_remove", "cor_move"} => exitStatus = NoStatus
       /\ CorReturned => /\ fs[destination] = fs0[source]
                         /\ ~fs[source].exists

\* C4, reached: the call has replaced an existing destination of another
\* content
C4_Witness ==
    /\ entry = "create_or_replace"
    /\ pc = "returned"
    /\ source # destination
    /\ fs0[destination].exists
    /\ fs0[destination] # fs0[source]
    /\ fs[destination] = fs0[source]

\* C5: in every state during or after a call of create_or_replace_file,
\* a failed call included, the destination holds what it held before the
\* call or what the source held; a failed call leaves no destination
\* deleted.
C5_AtomicReplacement ==
    entry = "create_or_replace"
    => /\ \/ fs[destination] = fs0[destination]
          \/ fs0[source].exists /\ fs[destination] = fs0[source]
       /\ (pc = "raised" /\ fs0[destination].exists) => fs[destination].exists

(***************************************************************************)
(* The reading functions of the file utility: load_file_content and        *)
(* get_project_tree.  A text read from a file is held as readlines holds   *)
(* it, a sequence of lines, each with its text and whether a newline ends  *)
(* it; only the last line of a file can lack the newline.                  *)
(***************************************************************************)

\* len(content.split('\n')) > 500
TooLarge == 500

\* end_line: int = 1000
DefaultEnd == 1000

\* len(output) > 100
TreeLimit == 100

Min(a, b) == IF a < b THEN a ELSE b

NoValue == [kind |-> "none", val |-> <<>>]

\* the lines of a file of n lines, the last one ended by a newline or not
FileLines(n, terminated) ==
    [i \in 1..n |-> [text |-> i, nl |-> (i < n \/ terminated)]]

\* lines[start:end] for 0 <= start < end
Slice(ls, start, end) == SubSeq(ls, start + 1, Min(end, Len(ls)))

\* len("".join(ls).split('\n')): one more than the newlines of the text
SplitCount(ls) == Cardinality({i \in DOMAIN ls : ls[i].nl}) + 1

NewLine == "\n"

\* the listing of n tracked files: each path, a newline after each
Listing(n) ==
    [k \in 1..(2 * n) |-> IF k % 2 = 1 THEN ToString((k + 1) \div 2) ELSE NewLine]

\* the position of the k-th newline of t, Len(t) + 1 past the last one,
\* 0 for k = 0
NewLineAt(t, k) ==
    LET nls == {i \in 1..Len(t) : t[i] = NewLine}
    IN  IF k = 0 THEN 0
        ELSE IF k > Cardinality(nls) THEN Len(t) + 1
        ELSE CHOOSE i \in nls : Cardinality({j \in nls : j <= i}) = k

\* t.split("\n"): the pieces between the newlines, one more than newlines
Split(t) ==
    LET n == Cardinality({i \in 1..Len(t) : t[i] = NewLine})
    IN  [k \in 1..(n + 1) |->
            SubSeq(t, NewLineAt(t, k - 1) + 1, NewLineAt(t, k) - 1)]

\* the sizes tried: near 0 and near the limit
Sizes(limit) == (0..Near) \cup ((limit - Near)..(limit + Near))

ReadQuiet ==
    /\ rdEntry = "none"
    /\ rdPc = "idle"
    /\ opened = FALSE
    /\ lines = <<>>
    /\ start_line = 0 /\ end_line = 0
    /\ output = <<>>
    /\ tracked = 0
    /\ rdRet = NoValue
    /\ rdExit = {}

ReadInit == ReadQuiet

\* sys.exit(s): SystemExit is no Exception, no handler here catches it
ReadExit(s) ==
    /\ rdPc' = "exited"
    /\ rdExit' = {s}
    /\ UNCHANGED rdRet

ReadReturn(v) ==
    /\ rdPc' = "returned"
    /\ rdRet' = v
    /\ UNCHANGED rdExit

\* the call load_file_content(file_name, start, end)
LoadCall(start, end) ==
    /\ rdPc = "idle"
    /\ rdEntry' = "load"
    /\ start_line' = start /\ end_line' = end
    /\ rdPc' = "load_open"
    /\ UNCHANGED <<opened, lines, output, tracked, rdRet, rdExit>>
    /\ UNCHANGED notReadVars

\* open(file_name, 'r'); lines = file.readlines(), of a file of n lines
LoadOpen(n, terminated) ==
    /\ rdPc = "load_open"
    /\ opened' = TRUE
    /\ lines' = FileLines(n, terminated)
    /\ rdPc' = "load_range"
    /\ UNCHANGED <<rdEntry, start_line, end_line, output, tracked, rdRet, rdExit>>
    /\ UNCHANGED notReadVars

\* open or readlines raises: except Exception writes the error, sys.exit(1)
LoadOpenFails ==
    /\ rdPc = "load_open"
    /\ ReadExit(1)
    /\ UNCHANGED <<rdEntry, opened, lines, start_line, end_line, output, tracked>>
    /\ UNCHANGED notReadVars

\* start_line < 0 or end_line <= start_line
BadRange(start, end) == start < 0 \/ end <= start

\* if start_line < 0 or end_line <= start_line: sys.exit(1)
LoadRange ==
    /\ rdPc = "load_range"
    /\ IF BadRange(start_line, end_line)
       THEN ReadExit(1)
       ELSE rdPc' = "load_select" /\ UNCHANGED <<rdRet, rdExit>>
    /\ UNCHANGED <<rdEntry, opened, lines, start_line, end_line, output, tracked>>
    /\ UNCHANGED notReadVars

\* content = "".join(lines[start:end]); more than 500 pieces: sys.exit(1);
\* return content
LoadSelect ==
    /\ rdPc = "load_select"
    /\ LET selected == Slice(lines, start_line, end_line)
       IN  IF SplitCount(selected) > TooLarge
           THEN ReadExit(1)
           ELSE ReadReturn([kind |-> "text", val |-> selected])
    /\ UNCHANGED <<rdEntry, opened, lines, start_line, end_line, output, tracked>>
    /\ UNCHANGED notReadVars

\* the call get_project_tree()
TreeCall ==
    /\ rdPc = "idle"
    /\ rdEntry' = "tree"
    /\ rdPc' = "tree_list"
    /\ UNCHANGED <<opened, lines, start_line, end_line, output, tracked, rdRet, rdExit>>
    /\ UNCHANGED notReadVars

\* output = subprocess.check_output(["git", "ls-files"]).decode().split("\n"),
\* in a checkout of n tracked files
TreeList(n) ==
    /\ rdPc = "tree_list"
    /\ opened' = TRUE
    /\ tracked' = n
    /\ output' = Split(Listing(n))
    /\ rdPc' = "tree_check"
    /\ UNCHANGED <<rdEntry, lines, start_line, end_line, rdRet, rdExit>>
    /\ UNCHANGED notReadVars

\* the listing fails: except Exception writes the error and the function
\* ends without a return statement
TreeListFails ==
    /\ rdPc = "tree_list"
    /\ ReadReturn([kind |-> "None", val |-> <<>>])
    /\ UNCHANGED <<rdEntry, opened, lines, start_line, end_line, output, tracked>>
    /\ UNCHANGED notReadVars

\* if len(output) > 100: sys.exit(1); return output
TreeCheck ==
    /\ rdPc = "tree_check"
    /\ IF Len(output) > TreeLimit
       THEN ReadExit(1)
       ELSE ReadReturn([kind |-> "list", val |-> output])
    /\ UNCHANGED <<rdEntry, opened, lines, start_line, end_line, output, tracked>>
    /\ UNCHANGED notReadVars

ReadNext ==
    \/ \E start \in (0 - 1)..Near,
          end \in (0..(Near + 1)) \cup Sizes(TooLarge) \cup {DefaultEnd} :
          LoadCall(start, end)
    \/ \E n \in Sizes(TooLarge), terminated \in BOOLEAN : LoadOpen(n, terminated)
    \/ LoadOpenFails
    \/ LoadRange
    \/ LoadSelect
    \/ TreeCall
    \/ \E n \in Sizes(TreeLimit) : TreeList(n)
    \/ TreeListFails
    \/ TreeCheck

(***************************************************************************)
(* The reading functions: claims.                                          *)
(***************************************************************************)

\* C3: load_file_content on a readable file exits with status 1 when
\* start < 0, when end <= start, or when the selected range holds more
\* than 500 lines; in every other case it returns the concatenation of the
\* lines start..end-1 and does not exit.
C3_LoadExitsOrReturnsRange ==
    (/\ rdEntry = "load"
     /\ rdPc \in {"returned", "exited"}
     /\ opened)
    => IF \/ start_line < 0
          \/ end_line <= start_line
          \/ Len(Slice(lines, start_line, end_line)) > TooLarge
       THEN rdPc = "exited" /\ rdExit = {1}
       ELSE /\ rdPc = "returned"
            /\ rdRet = [kind |-> "text", val |-> Slice(lines, start_line, end_line)]

\* C6: get_project_tree exits with status 1 and returns nothing when more
\* than 100 files are tracked; when the listing succeeds with at most 100
\* tracked files it returns the ordered list of their paths.
C6_TreeListsOrExits ==
    (/\ rdEntry = "tree"
     /\ rdPc \in {"returned", "exited"}
     /\ opened)
    => IF tracked > TreeLimit
       THEN rdPc = "exited" /\ rdExit = {1} /\ rdRet = NoValue
       ELSE /\ rdPc = "returned"
            /\ rdRet = [kind |-> "list",
                        val |-> [i \in 1..tracked |-> <<ToString(i)>>]]

(***************************************************************************)
(* The prompt request object.                                              *)
(***************************************************************************)

\* self.prompt[:20]
NameLen == 20

PromptChars == {"p", NewLine}

PromptTexts == UNION {[1..k -> PromptChars] : k \in 0..MaxLen}

\* what the embeddings endpoint does: it raises, or answers nothing, or no
\* data, or an empty vector, or a vector
EmbedReplies == {"raises", "no_response", "no_data", "no_embedding", "vector"}

\* what the chat-completions endpoint does: it raises, or answers with no
\* choice, or with a text
ChatReplies == {"raises", "no_choices", "text"}

PromptQuiet ==
    /\ prPc = "idle"
    /\ promptArg = <<>>
    /\ prompt = <<>>
    /\ embedding = [kind |-> "unset"]
    /\ embedInput = <<>>
    /\ embedReply = "none"
    /\ chatReply = "none"
    /\ response = NoValue
    /\ artifacts = {}
    /\ prRaised = "none"

PromptInit == PromptQuiet

\* Prompt(text): the dataclass sets the fields, __post_init__ then asks for
\* the embedding
Construct(text) ==
    /\ prPc = "idle"
    /\ promptArg' = text
    /\ prompt' = text
    /\ prPc' = "get_embedding"
    /\ UNCHANGED <<embedding, embedInput, embedReply, chatReply, response,
                   artifacts, prRaised>>
    /\ UNCHANGED notPromptVars

\* a wrong get_embedding: its handler raises to the caller, as the client
\* module's does
get_embedding_reraising(reply) ==
    IF reply = "vector" THEN [kind |-> "vector"]
    ELSE [kind |-> "raise", exc |-> IF reply = "raises" THEN "APIError" ELSE "ValueError"]

\* get_embedding's result: the vector when response, response.data and
\* response.data[0].embedding are all there; otherwise ValueError is raised
\* inside the try block, and the handler turns that, and whatever the call
\* raised, into None
get_embedding(reply) ==
    IF reply = "vector" THEN [kind |-> "vector"] ELSE [kind |-> "None"]

\* __post_init__: self.embedding = self.get_embedding(self.prompt, self.model);
\* the text is sent with its newlines made spaces
GetEmbedding(reply) ==
    /\ prPc = "get_embedding"
    /\ embedInput' = Replace(prompt, <<NewLine>>, <<" ">>)
    /\ embedReply' = reply
    /\ LET r == get_embedding(reply)
       IN  IF r.kind = "raise"
           THEN /\ prRaised' = r.exc
                /\ prPc' = "construct_raised"
                /\ UNCHANGED embedding
           ELSE /\ embedding' = r
                /\ prPc' = "constructed"
                /\ UNCHANGED prRaised
    /\ UNCHANGED <<promptArg, prompt, chatReply, response, artifacts>>
    /\ UNCHANGED notPromptVars

\* the call generate_response(output_path), the path given or not
GenerateCall(given) ==
    /\ prPc = "constructed"
    /\ prPc' = IF given THEN "chat_to_path" ELSE "chat_to_default"
    /\ UNCHANGED <<promptArg, prompt, embedding, embedInput, embedReply,
                   chatReply, response, artifacts, prRaised>>
    /\ UNCHANGED notPromptVars

\* the file the document goes to: output_path or
\* self.output_dir / f"{self.prompt[:20]}.json"
OutputFile(given) ==
    IF given THEN <<"o">>
    ELSE SubSeq(prompt, 1, Min(NameLen, Len(prompt))) \o <<".json">>

\* client.chat.completions.create; completion.choices[0].message.content;
\* the document is written (the write itself failing or not) and the text
\* returned; except Exception: print the traceback, raise e
GenerateChat(reply, written) ==
    /\ prPc \in {"chat_to_path", "chat_to_default"}
    /\ chatReply' = reply
    /\ IF reply = "text" /\ written
       THEN /\ artifacts' = artifacts \cup
                   {[file |-> OutputFile(prPc = "chat_to_path"),
                     doc |-> [prompt |-> prompt, response |-> <<"r">>]]}
            /\ response' = [kind |-> "text", val |-> <<"r">>]
            /\ prPc' = "generate_returned"
            /\ UNCHANGED prRaised
       ELSE /\ prRaised' = IF reply = "raises" THEN "APIError"
                           ELSE IF reply = "no_choices" THEN "IndexError"
                           ELSE "OSError"
            /\ prPc' = "generate_raised"
            /\ UNCHANGED <<artifacts, response>>
    /\ UNCHANGED <<promptArg, prompt, embedding, embedInput, embedReply>>
    /\ UNCHANGED notPromptVars

PromptNext ==
    \/ \E text \in PromptTexts : Construct(text)
    \/ \E reply \in EmbedReplies : GetEmbedding(reply)
    \/ \E given \in BOOLEAN : GenerateCall(given)
    \/ \E reply \in ChatReplies, written \in BOOLEAN : GenerateChat(reply, written)

(***************************************************************************)
(* The prompt request object: claims.                                      *)
(***************************************************************************)

\* C10: when the embeddings call fails (it raises, or its result is empty)
\* the construction does not raise and the object holds the given text as
\* its prompt and no embedding; when the chat-completion call fails,
\* generate_response raises to its caller and returns no response.
C10_EmbeddingTolerantGenerateStrict ==
    /\ prPc # "construct_raised"
    /\ prPc \in {"get_embedding", "constructed"} => prRaised = "none"
    /\ (embedReply \notin {"none", "vector"})
       => /\ embedding = [kind |-> "None"]
          /\ prompt = promptArg
          /\ prPc \notin {"idle", "get_embedding"}
    /\ (chatReply \in {"raises", "no_choices"})
       => /\ prPc = "generate_raised"
          /\ prRaised # "none"
          /\ response = NoValue
          /\ artifacts = {}

\* C10, reached: an object built while the embeddings call raised, whose
\* generate_response then raised because the chat call raised
C10_Witness ==
    /\ embedReply = "raises"
    /\ embedding = [kind |-> "None"]
    /\ Len(prompt) > 0
    /\ chatReply = "raises"
    /\ prPc = "generate_raised"

(***************************************************************************)
(* The bootstrap (main), its directories and its parallel dispatch.        *)
(* Process 0 is the main process, the others are the pool's workers.       *)
(***************************************************************************)

MainProc == 0

Workers == 1..PoolSize

Procs == {MainProc} \cup Workers

\* _create_paths("vault", "templates", "output", "logs", "src")
DirNames == <<"vault", "templates", "output", "logs", "src">>

AllDirs == {DirNames[i] : i \in DOMAIN DirNames}

\* the errors of the file system that a directory creation can meet
FsFaults == {"FileNotFoundError", "PermissionError"}

Str(t) == [kind |-> "str", val |-> t]

Other(k, t) == [kind |-> k, val |-> t]

IsStr(v) == v.kind = "str"

NotStr(v) == v.kind # "str"

\* the values given as arguments: texts, and an integer as the non-textual
ArgValues == {Str(<<"A">>), Str(<<>>), Other("int", <<"1">>)}

\* the arguments handed to the parallel dispatch: none is a text, and
\* they differ from one another
NonTextual(i) == Other("int", <<ToString(i)>>)

ParallelArgs == {[i \in 1..n |-> NonTextual(i)] : n \in 0..MaxTasks}

KwNames == {<<"k">>, <<"j">>}

SeqsUpTo(S, n) == UNION {[1..k -> S] : k \in 0..n}

ArgLists == SeqsUpTo(ArgValues, MaxArgs)

\* keyword arguments, in the order given: names differ
KwLists ==
    {kw \in SeqsUpTo([name : KwNames, value : ArgValues \ {Str(<<>>)}], MaxArgs) :
        \A i, j \in DOMAIN kw : i # j => kw[i].name # kw[j].name}

TokChars == {"A", " "}

ScriptToken == <<"m">>

\* sys.argv: the script's name, then the tokens
CommandTokens ==
    {<<ScriptToken>> \o rest :
        rest \in SeqsUpTo(SeqsUpTo(TokChars, MaxTokLen), MaxArgc)}

\* str.lower
Lower(t) == [i \in DOMAIN t |-> IF t[i] = "A" THEN "a" ELSE t[i]]

\* str.strip: without the white space at its two ends
Strip(t) ==
    LET solid == {i \in DOMAIN t : t[i] # " "}
    IN  IF solid = {} THEN <<>>
        ELSE SubSeq(t, CHOOSE i \in solid : \A j \in solid : i <= j,
                       CHOOSE i \in solid : \A j \in solid : j <= i)

NonEmpty(t) == Len(t) > 0

\* [str(_).lower().strip() for _ in sys.argv if len(_) > 0]
CommandLineArguments(argv) ==
    LET kept == SelectSeq(argv, NonEmpty)
    IN  [i \in DOMAIN kept |-> Strip(Lower(kept[i]))]

Vals(vs) == [i \in DOMAIN vs |-> vs[i].val]

KwIsStr(kv) == IsStr(kv.value)

KwNotStr(kv) == NotStr(kv.value)

\* for arg in args: arguments.append(arg) if it is a str;
\* for k, v in kwargs.items(): arguments.append(f"{k}={v}") if v is a str
Arguments(argv, args, kwargs) ==
    LET textual == SelectSeq(kwargs, KwIsStr)
    IN  CommandLineArguments(argv)
        \o Vals(SelectSeq(args, IsStr))
        \o [i \in DOMAIN textual |->
               textual[i].name \o <<"=">> \o textual[i].value.val]

\* misc_args: the positional arguments that are no str, then such values
\* of the keyword arguments
MiscArgs(args, kwargs) ==
    LET others == SelectSeq(kwargs, KwNotStr)
    IN  SelectSeq(args, NotStr) \o [i \in DOMAIN others |-> others[i].value]

NoFrame == [args |-> <<>>, kwargs |-> <<>>, i |-> 0, created_paths |-> <<>>]

NoResult == [kind |-> "none"]

\* combined_logger = None; the three combined lists empty
NoneCombined ==
    [logger |-> "None", paths |-> <<>>, arguments |-> <<>>, misc_args |-> <<>>]

BootQuiet ==
    /\ cpc = "idle"
    /\ curArgs = <<>>
    /\ curKwargs = <<>>
    /\ combined = NoneCombined
    /\ bpc = [p \in Procs |-> "idle"]
    /\ frame = [p \in Procs |-> NoFrame]
    /\ lock = [p \in Procs |-> FALSE]
    /\ result = [p \in Procs |-> NoResult]
    /\ err = [p \in Procs |-> "none"]
    /\ calls = 0
    /\ ppc = "idle"
    /\ parArgs = <<>>
    /\ tasks = <<>>
    /\ collected = {}
    /\ logged = {}

BootIdle ==
    /\ dirs = {}
    /\ dirs0 = {}
    /\ sysArgv = <<ScriptToken>>
    /\ BootQuiet

\* process p begins main(*args, **kwargs)
Begin(p, args, kwargs) ==
    /\ bpc' = [bpc EXCEPT ![p] = "logs"]
    /\ frame' = [frame EXCEPT ![p] =
                    [args |-> args, kwargs |-> kwargs, i |-> 0, created_paths |-> <<>>]]
    /\ result' = [result EXCEPT ![p] = NoResult]
    /\ err' = [err EXCEPT ![p] = "none"]

\* the main process calls main(*args, **kwargs)
MainCall(args, kwargs) ==
    /\ ppc = "idle"
    /\ bpc[MainProc] \in {"idle", "returned", "raised"}
    /\ calls < MaxCalls
    /\ calls' = calls + 1
    /\ Begin(MainProc, args, kwargs)
    /\ UNCHANGED <<dirs, dirs0, sysArgv, lock, ppc, parArgs, tasks,
                   collected, logged>>
    /\ UNCHANGED notBootVars

\* a wrong mkdir: exist_ok is not honoured
MkdirStrict(existing, d, exist_ok) ==
    IF d \in existing THEN "FileExistsError" ELSE "created"

\* Path.mkdir(exist_ok=...): os.mkdir creates the directory or fails; an
\* existing directory is an error unless exist_ok
Mkdir(existing, d, exist_ok) ==
    IF d \notin existing THEN "created"
    ELSE IF exist_ok THEN "exists"
    ELSE "FileExistsError"

\* main raises e in process p
MainRaises(p, e) ==
    /\ bpc' = [bpc EXCEPT ![p] = "raised"]
    /\ err' = [err EXCEPT ![p] = e]

\* LOGS_DIR.mkdir(exist_ok=True); logging.config.dictConfig(LOGGING_CONFIG).
\* An error of the mkdir leaves main as it is: no handler is around it.
MainLogs(p) ==
    /\ bpc[p] = "logs"
    /\ \/ \E e \in FsFaults :
             /\ MainRaises(p, e)
             /\ UNCHANGED dirs
       \/ LET made == Mkdir(dirs, "logs", TRUE)
          IN  IF made = "FileExistsError"
              THEN /\ MainRaises(p, made)
                   /\ UNCHANGED dirs
              ELSE /\ dirs' = dirs \cup {"logs"}
                   /\ bpc' = [bpc EXCEPT ![p] = "acquire"]
                   /\ UNCHANGED err
    /\ UNCHANGED <<dirs0, sysArgv, frame, lock, result, calls, ppc, parArgs,
                   tasks, collected, logged>>
    /\ UNCHANGED notBootVars

\* _create_paths: created_paths = []; with _lock:
CreatePathsAcquire(p) ==
    /\ bpc[p] = "acquire"
    /\ ~lock[p]
    /\ lock' = [lock EXCEPT ![p] = TRUE]
    /\ frame' = [frame EXCEPT ![p].i = 1, ![p].created_paths = <<>>]
    /\ bpc' = [bpc EXCEPT ![p] = "mkdir"]
    /\ UNCHANGED <<dirs, dirs0, sysArgv, result, err, calls, ppc,
                   parArgs, tasks, collected, logged>>
    /\ UNCHANGED notBootVars

\* except (FileNotFoundError, PermissionError) as e:
\*     raise Exception(f"Error creating paths: {str(e)}")
Wrapped(e) == IF e \in {"FileNotFoundError", "PermissionError"} THEN "Exception" ELSE e

\* one turn of the loop: path.mkdir(parents=True, exist_ok=True);
\* created_paths.append(path).  An error leaves the with block, which
\* releases the lock, and the handler wraps it; after the last directory
\* the block is left and the paths are returned to main.
CreatePathsMkdir(p) ==
    /\ bpc[p] = "mkdir"
    /\ LET d == DirNames[frame[p].i]
           made == Mkdir(dirs, d, TRUE)
       IN  \/ \E e \in FsFaults :
                 /\ MainRaises(p, Wrapped(e))
                 /\ lock' = [lock EXCEPT ![p] = FALSE]
                 /\ UNCHANGED <<dirs, frame>>
           \/ IF made = "FileExistsError"
              THEN /\ MainRaises(p, Wrapped(made))
                   /\ lock' = [lock EXCEPT ![p] = FALSE]
                   /\ UNCHANGED <<dirs, frame>>
              ELSE /\ dirs' = dirs \cup {d}
                   /\ frame' = [frame EXCEPT
                                   ![p].created_paths = Append(@, d),
                                   ![p].i = @ + 1]
                   /\ IF frame[p].i = Len(DirNames)
                      THEN /\ lock' = [lock EXCEPT ![p] = FALSE]
                           /\ bpc' = [bpc EXCEPT ![p] = "classify"]
                      ELSE UNCHANGED <<lock, bpc>>
                   /\ UNCHANGED err
    /\ UNCHANGED <<dirs0, sysArgv, result, calls, ppc, parArgs,
                   tasks, collected, logged>>
    /\ UNCHANGED notBootVars

\* the logger, the two lists, the two log records, and the return
MainClassify(p) ==
    /\ bpc[p] = "classify"
    /\ result' = [result EXCEPT ![p] =
                     [kind |-> "tuple",
                      logger |-> "main",
                      paths |-> frame[p].created_paths,
                      arguments |-> Arguments(sysArgv, frame[p].args, frame[p].kwargs),
                      misc_args |-> MiscArgs(frame[p].args, frame[p].kwargs)]]
    /\ bpc' = [bpc EXCEPT ![p] = "returned"]
    /\ UNCHANGED <<dirs, dirs0, sysArgv, frame, lock, err, calls,
                   ppc, parArgs, tasks, collected, logged>>
    /\ UNCHANGED notBootVars

\* the main process calls run_main_parallel(args)
RunParallelCall(args) ==
    /\ ppc = "idle"
    /\ bpc[MainProc] = "idle"
    /\ ppc' = "submit"
    /\ parArgs' = args
    /\ UNCHANGED <<dirs, dirs0, sysArgv, bpc, frame, lock, result,
                   err, calls, tasks, collected, logged>>
    /\ UNCHANGED notBootVars

\* futures = [executor.submit(main, arg) for arg in args]: one turn of the
\* comprehension, and after the last one the wait begins
Submit ==
    /\ ppc = "submit"
    /\ IF Len(tasks) < Len(parArgs)
       THEN /\ tasks' = Append(tasks, [arg |-> parArgs[Len(tasks) + 1],
                                       state |-> "queued", worker |-> MainProc,
                                       runs |-> 0, exc |-> "none"])
            /\ UNCHANGED ppc
       ELSE /\ ppc' = "collect"
            /\ UNCHANGED tasks
    /\ UNCHANGED <<dirs, dirs0, sysArgv, bpc, frame, lock, result,
                   err, calls, parArgs, collected, logged>>
    /\ UNCHANGED notBootVars

\* the first submission that waits for a worker
FirstQueued ==
    CHOOSE t \in DOMAIN tasks :
        /\ tasks[t].state = "queued"
        /\ \A u \in DOMAIN tasks : tasks[u].state = "queued" => t <= u

\* an idle worker takes the first waiting submission and begins main(arg);
\* the workers being alike, the idle one of the lowest number takes it
TaskStart(w) ==
    /\ bpc[w] = "idle"
    /\ \A v \in Workers : bpc[v] = "idle" => w <= v
    /\ \E t \in DOMAIN tasks : tasks[t].state = "queued"
    /\ tasks' = [tasks EXCEPT ![FirstQueued].state = "running",
                              ![FirstQueued].worker = w,
                              ![FirstQueued].runs = @ + 1]
    /\ Begin(w, <<tasks[FirstQueued].arg>>, <<>>)
    /\ UNCHANGED <<dirs, dirs0, sysArgv, lock, calls, ppc, parArgs,
                   collected, logged>>
    /\ UNCHANGED notBootVars

\* the worker's call has returned or raised: the future gets the result or
\* the exception, and the worker is free again
TaskFinish(w) ==
    /\ bpc[w] \in {"returned", "raised"}
    /\ \E t \in DOMAIN tasks :
          /\ tasks[t].state = "running"
          /\ tasks[t].worker = w
          /\ tasks' = [tasks EXCEPT
                          ![t].state = IF bpc[w] = "returned" THEN "done" ELSE "failed",
                          ![t].exc = err[w]]
    /\ bpc' = [bpc EXCEPT ![w] = "idle"]
    /\ frame' = [frame EXCEPT ![w] = NoFrame]
    /\ result' = [result EXCEPT ![w] = NoResult]
    /\ err' = [err EXCEPT ![w] = "none"]
    /\ UNCHANGED <<dirs, dirs0, sysArgv, lock, calls, ppc, parArgs,
                   collected, logged>>
    /\ UNCHANGED notBootVars

\* a wrong handler: only the errors of the file system are caught
CatchesFsErrors(e) == e \in FsFaults

\* except Exception as e: every exception main can raise is an Exception
CollectorCatches(e) ==
    e \in {"Exception", "FileNotFoundError", "PermissionError", "FileExistsError"}

\* one turn of the loop over as_completed(futures): future.result() of a
\* finished submission; its exception, if caught, is logged
Collect(t) ==
    /\ ppc = "collect"
    /\ t \in DOMAIN tasks
    /\ t \notin collected
    /\ tasks[t].state \in {"done", "failed"}
    /\ collected' = collected \cup {t}
    /\ IF tasks[t].state = "done"
       THEN UNCHANGED <<logged, ppc>>
       ELSE IF CollectorCatches(tasks[t].exc)
       THEN logged' = logged \cup {t} /\ UNCHANGED ppc
       ELSE ppc' = "raised" /\ UNCHANGED logged
    /\ UNCHANGED <<dirs, dirs0, sysArgv, bpc, frame, lock, result,
                   err, calls, parArgs, tasks>>
    /\ UNCHANGED notBootVars

\* as_completed is exhausted, the executor is shut down, the call returns
ParallelReturn ==
    /\ ppc = "collect"
    /\ collected = DOMAIN tasks
    /\ ppc' = "returned"
    /\ UNCHANGED <<dirs, dirs0, sysArgv, bpc, frame, lock, result,
                   err, calls, parArgs, tasks, collected, logged>>
    /\ UNCHANGED notBootVars

\* one Bootstrap call, its arguments any mixture
ArgsNext ==
    \/ \E args \in ArgLists, kwargs \in KwLists : calls = 0 /\ MainCall(args, kwargs)
    \/ MainLogs(MainProc)
    \/ CreatePathsAcquire(MainProc)
    \/ CreatePathsMkdir(MainProc)
    \/ MainClassify(MainProc)

BootNext ==
    \/ \E args \in SeqsUpTo(ArgValues, 1) : MainCall(args, <<>>)
    \/ MainLogs(MainProc)
    \/ CreatePathsAcquire(MainProc)
    \/ CreatePathsMkdir(MainProc)
    \/ MainClassify(MainProc)

ParNext ==
    \/ \E args \in ParallelArgs : RunParallelCall(args)
    \/ Submit
    \/ \E w \in Workers : TaskStart(w)
    \/ \E w \in Workers : MainLogs(w)
    \/ \E w \in Workers : CreatePathsAcquire(w)
    \/ \E w \in Workers : CreatePathsMkdir(w)
    \/ \E w \in Workers : MainClassify(w)
    \/ \E w \in Workers : TaskFinish(w)
    \/ \E t \in 1..MaxTasks : Collect(t)
    \/ ParallelReturn

(***************************************************************************)
(* curry_main: one inline Bootstrap call for the textual positional        *)
(* arguments, then the parallel dispatch of the others.                    *)
(***************************************************************************)

\* a list given as one argument
List(items) == [kind |-> "list", val |-> items]

IsList(v) == v.kind = "list"

\* the values given to curry_main: a text, a number, a list of a number
\* and a text
CurryValues ==
    {Str(<<"A">>), Other("int", <<"1">>),
     List(<<Other("int", <<"2">>), Str(<<"B">>)>>)}

CurryArgLists == SeqsUpTo(CurryValues, MaxCurryArgs)

CurryKwLists == {<<>>, <<[name |-> <<"k">>, value |-> Str(<<"A">>)]>>}

\* str_args = [arg for arg in args if isinstance(arg, str)]
StrArgs(args) == SelectSeq(args, IsStr)

\* a wrong split: every argument goes to the parallel dispatch
EveryArg(args) == args

\* non_str_args = [arg for arg in args if not isinstance(arg, str)]
NonStrArgs(args) == SelectSeq(args, NotStr)

\* the main process calls curry_main(*args, **kwargs): the four combined
\* values are initialised and the arguments are split by type
CurryCall(args, kwargs) ==
    /\ cpc = "idle"
    /\ ppc = "idle"
    /\ bpc[MainProc] = "idle"
    /\ cpc' = "inline"
    /\ curArgs' = args
    /\ curKwargs' = kwargs
    /\ combined' = NoneCombined
    /\ UNCHANGED bootVars
    /\ UNCHANGED notCurryVars

\* if str_args: main(*str_args, **kwargs) is called, once, with all of them
CurryInline ==
    /\ cpc = "inline"
    /\ IF StrArgs(curArgs) # <<>>
       THEN /\ Begin(MainProc, StrArgs(curArgs), curKwargs)
            /\ calls' = calls + 1
            /\ cpc' = "inline_wait"
       ELSE /\ cpc' = "parallel"
            /\ UNCHANGED <<bpc, frame, result, err, calls>>
    /\ UNCHANGED <<dirs, dirs0, sysArgv, lock, ppc, parArgs, tasks, collected, logged>>
    /\ UNCHANGED <<curArgs, curKwargs, combined>>
    /\ UNCHANGED notCurryVars

\* main has returned: combined_logger = logger and the three lists are
\* extended by the ones returned; or main has raised, and no handler of
\* curry_main is around the call
CurryCombine ==
    /\ cpc = "inline_wait"
    /\ bpc[MainProc] \in {"returned", "raised"}
    /\ IF bpc[MainProc] = "returned"
       THEN /\ combined' =
                  [logger |-> result[MainProc].logger,
                   paths |-> combined.paths \o result[MainProc].paths,
                   arguments |-> combined.arguments \o result[MainProc].arguments,
                   misc_args |-> combined.misc_args \o result[MainProc].misc_args]
            /\ cpc' = "parallel"
       ELSE /\ cpc' = "raised"
            /\ UNCHANGED combined
    /\ UNCHANGED bootVars
    /\ UNCHANGED <<curArgs, curKwargs>>
    /\ UNCHANGED notCurryVars

\* if non_str_args: run_main_parallel(non_str_args); the keyword arguments
\* are not handed on
CurryParallel ==
    /\ cpc = "parallel"
    /\ IF NonStrArgs(curArgs) # <<>>
       THEN /\ ppc' = "submit"
            /\ parArgs' = NonStrArgs(curArgs)
            /\ cpc' = "parallel_wait"
       ELSE /\ cpc' = "returned"
            /\ UNCHANGED <<ppc, parArgs>>
    /\ UNCHANGED <<dirs, dirs0, sysArgv, bpc, frame, lock, result, err, calls,
                   tasks, collected, logged>>
    /\ UNCHANGED <<curArgs, curKwargs, combined>>
    /\ UNCHANGED notCurryVars

\* run_main_parallel has returned, nothing of it is kept:
\* return combined_logger, combined_paths, combined_arguments, combined_misc_args
CurryReturn ==
    /\ cpc = "parallel_wait"
    /\ ppc = "returned"
    /\ cpc' = "returned"
    /\ UNCHANGED bootVars
    /\ UNCHANGED <<curArgs, curKwargs, combined>>
    /\ UNCHANGED notCurryVars

CurryNext ==
    \/ \E args \in CurryArgLists, kwargs \in CurryKwLists : CurryCall(args, kwargs)
    \/ CurryInline
    \/ CurryCombine
    \/ CurryParallel
    \/ CurryReturn
    \/ \E p \in Procs : MainLogs(p)
    \/ \E p \in Procs : CreatePathsAcquire(p)
    \/ \E p \in Procs : CreatePathsMkdir(p)
    \/ \E p \in Procs : MainClassify(p)
    \/ Submit
    \/ \E w \in Workers : TaskStart(w)
    \/ \E w \in Workers : TaskFinish(w)
    \/ \E t \in 1..MaxCurryArgs : Collect(t)
    \/ ParallelReturn

(***************************************************************************)
(* The bootstrap and the parallel dispatch: claims.                        *)
(***************************************************************************)

\* the keyword arguments whose value is a text, each as name=value
KeywordTexts(kwargs) ==
    LET textual == SelectSeq(kwargs, KwIsStr)
    IN  [i \in DOMAIN textual |->
            textual[i].name \o <<"=">> \o textual[i].value.val]

\* the values of the keyword arguments that are no text
KeywordOthers(kwargs) ==
    LET others == SelectSeq(kwargs, KwNotStr)
    IN  [i \in DOMAIN others |-> others[i].value]

\* C7: the textual list returned by the bootstrap is the command-line
\* tokens lower-cased and trimmed, the empty ones dropped, so that no empty
\* text is among them, then the textual positional arguments in call
\* order, then name=value for each textual keyword argument; the other
\* list is the non-textual positional arguments, then the non-textual
\* keyword values; every argument is in exactly one of the two lists.
C7_ArgumentsClassified ==
    bpc[MainProc] = "returned"
    => LET r == result[MainProc]
           f == frame[MainProc]
           tokens == SelectSeq([i \in DOMAIN sysArgv |-> Strip(Lower(sysArgv[i]))],
                               NonEmpty)
       IN  /\ r.arguments = tokens \o Vals(SelectSeq(f.args, IsStr))
                                   \o KeywordTexts(f.kwargs)
           /\ \A i \in 1..Len(tokens) : r.arguments[i] # <<>>
           /\ r.misc_args = SelectSeq(f.args, NotStr) \o KeywordOthers(f.kwargs)
           /\ Len(r.arguments) + Len(r.misc_args)
                 = Len(tokens) + Len(f.args) + Len(f.kwargs)

\* C8: whatever subset of the five directories exists at the start, and
\* however many Bootstrap calls the process makes, no call raises because
\* a directory exists, and every call that returns leaves all five
\* directories in place and returns the five paths in their fixed order.
C8_BootstrapIdempotent ==
    /\ \A p \in Procs : err[p] # "FileExistsError"
    /\ bpc[MainProc] = "returned"
       => /\ AllDirs \subseteq dirs
          /\ result[MainProc].paths = DirNames
          /\ ~lock[MainProc]

\* C8, reached: a second call has returned in a directory that held some
\* of the five, but not all, before the first
C8_Witness ==
    /\ calls >= 2
    /\ bpc[MainProc] = "returned"
    /\ "logs" \in dirs0
    /\ "vault" \in dirs0
    /\ dirs0 # AllDirs
    /\ dirs = AllDirs

\* C9: run_main_parallel submits one Bootstrap invocation per argument,
\* each run once; an invocation that raises is logged when its result is
\* taken and the exception goes no further; the call returns only when
\* every submission has finished, the ones that did not raise having
\* returned.
C9_ParallelIsolation ==
    /\ ppc # "raised"
    /\ Len(tasks) <= Len(parArgs)
    /\ \A t \in DOMAIN tasks :
          /\ tasks[t].arg = parArgs[t]
          /\ tasks[t].runs = IF tasks[t].state = "queued" THEN 0 ELSE 1
          /\ tasks[t].state = "failed" <=> tasks[t].exc # "none"
    /\ ppc \in {"collect", "returned"} => Len(tasks) = Len(parArgs)
    /\ \A t \in collected :
          /\ tasks[t].state \in {"done", "failed"}
          /\ t \in logged <=> tasks[t].state = "failed"
    /\ logged \subseteq collected
    /\ ppc = "returned"
       => /\ collected = DOMAIN tasks
          /\ \A w \in Workers : bpc[w] = "idle" /\ ~lock[w]

\* C9, reached: the dispatch has returned from three submissions of which
\* exactly one raised
C9_Witness ==
    /\ ppc = "returned"
    /\ Len(tasks) >= 3
    /\ Cardinality({t \in DOMAIN tasks : tasks[t].state = "failed"}) = 1
    /\ Cardinality({t \in DOMAIN tasks : tasks[t].state = "done"}) = Len(tasks) - 1
    /\ Cardinality(logged) = 1

\* C13: a Bootstrap call stopped by a missing path segment or a refused
\* permission, at the logs directory or at any of the five, returns no
\* tuple and raises the generic Exception, never the error of the file
\* system itself, and its lock is free afterwards.
C13_FailureWrapped ==
    \A p \in Procs :
        bpc[p] = "raised"
        => /\ err[p] = "Exception"
           /\ result[p] = NoResult
           /\ ~lock[p]

\* C14: however the workers' directory creations interleave, no worker
\* raises because a directory exists already, a worker past its creations
\* has all five paths, and when the dispatch has returned with a
\* submission that returned, all five directories exist.
C14_NoCreationRace ==
    /\ \A w \in Workers : err[w] # "FileExistsError"
    /\ \A t \in DOMAIN tasks : tasks[t].exc # "FileExistsError"
    /\ \A w \in Workers :
          bpc[w] \in {"classify", "returned"}
          => /\ frame[w].created_paths = DirNames
             /\ AllDirs \subseteq dirs
    /\ (ppc = "returned" /\ \E t \in DOMAIN tasks : tasks[t].state = "done")
       => AllDirs \subseteq dirs

\* C14, reached: two workers, begun where none of the five existed, are
\* both past their creations at the same time, so that each directory was
\* made by one of them and met by the other
C14_Witness ==
    /\ dirs0 = {}
    /\ dirs = AllDirs
    /\ \E v, w \in Workers :
          /\ v # w
          /\ bpc[v] = "classify"
          /\ bpc[w] = "classify"
          /\ frame[v].created_paths = DirNames
          /\ frame[w].created_paths = DirNames

(***************************************************************************)
(* curry_main: claims.                                                     *)
(***************************************************************************)

\* the leaves of a list of arguments: what is no list, and the leaves of
\* what is one
RECURSIVE Leaves(_)
Leaves(vs) ==
    IF vs = <<>> THEN <<>>
    ELSE (IF IsList(Head(vs)) THEN Leaves(Head(vs).val) ELSE <<Head(vs)>>)
         \o Leaves(Tail(vs))

\* the arguments of the submissions, in the order submitted
Submitted == [t \in DOMAIN tasks |-> tasks[t].arg]

\* C11: curry_main recurses into a nested collection, and invokes the
\* bootstrap once per leaf of its positional arguments that is no
\* collection, each invocation with exactly one positional argument.
C11_FlattensToLeaves ==
    cpc = "returned"
    => /\ calls + Len(tasks) = Len(Leaves(curArgs))
       /\ calls > 0 => Len(frame[MainProc].args) = 1
       /\ \A t \in DOMAIN tasks : ~IsList(tasks[t].arg)

\* C11, amended: curry_main splits its positional arguments by type and
\* recurses into none.  The textual ones, if any, go all together and in
\* order into one inline Bootstrap call, with the keyword arguments; the
\* others, a list among them as one value, go in order to the parallel
\* dispatch, which invokes the bootstrap once for each with that one
\* positional argument and no keyword argument.
C11_DispatchByType ==
    /\ \A w \in Workers :
          bpc[w] # "idle"
          => /\ Len(frame[w].args) = 1
             /\ frame[w].kwargs = <<>>
             /\ \E t \in DOMAIN tasks :
                   /\ tasks[t].state = "running"
                   /\ tasks[t].worker = w
                   /\ tasks[t].arg = frame[w].args[1]
    /\ cpc \in {"parallel", "parallel_wait", "returned"}
       => /\ calls = (IF SelectSeq(curArgs, IsStr) # <<>> THEN 1 ELSE 0)
          /\ calls = 1
             => /\ frame[MainProc].args = SelectSeq(curArgs, IsStr)
                /\ frame[MainProc].kwargs = curKwargs
    /\ cpc = "returned"
       => /\ Submitted = SelectSeq(curArgs, NotStr)
          /\ \A t \in DOMAIN tasks : tasks[t].runs = 1

\* C11, reached: curry_main has returned from two texts, or from a text
\* and a list, the list having been one worker's single argument
C11_Witness ==
    /\ cpc = "returned"
    /\ Len(curArgs) = 2
    /\ \E i \in DOMAIN curArgs : IsStr(curArgs[i])
    /\ \E i \in DOMAIN curArgs : IsList(curArgs[i])
    /\ curKwargs # <<>>
    /\ calls = 1
    /\ Len(tasks) = 1
    /\ tasks[1].state = "done"

\* C12: whenever the call caused a Bootstrap invocation, inline or in a
\* worker, and these returned, curry_main returns a logger, the five
\* paths and the two lists: the logger is not absent and the path list is
\* not empty.
C12_ReturnsBootstrapTuple ==
    /\ cpc = "returned"
    /\ calls + Len(tasks) >= 1
    /\ \A t \in DOMAIN tasks : tasks[t].state = "done"
    => /\ combined.logger # "None"
       /\ combined.paths # <<>>

vars == <<fileVars, readVars, promptVars, bootVars, curryVars>>

\* the file utility run on files: a run of the script, or a call of
\* replace_text_in_file or create_or_replace_file
FileSpecInit == FileInit /\ ReadQuiet /\ PromptQuiet /\ BootIdle

FileSpec == FileSpecInit /\ [][FileNext]_vars

\* a call of load_file_content or get_project_tree
ReadSpecInit == FileIdle /\ ReadInit /\ PromptQuiet /\ BootIdle

ReadSpec == ReadSpecInit /\ [][ReadNext]_vars

\* a prompt request object is built and asked for a response
PromptSpecInit == FileIdle /\ ReadQuiet /\ PromptInit /\ BootIdle

PromptSpec == PromptSpecInit /\ [][PromptNext]_vars

\* the main process calls the bootstrap with every mixture of arguments,
\* in a directory that holds none of the five
ArgsSpecInit ==
    /\ FileIdle /\ ReadQuiet /\ PromptQuiet
    /\ dirs = {} /\ dirs0 = {}
    /\ sysArgv \in CommandTokens
    /\ BootQuiet

ArgsSpec == ArgsSpecInit /\ [][ArgsNext]_vars

\* the main process calls the bootstrap again and again, in a directory
\* that holds any of the five
BootSpecInit ==
    /\ FileIdle /\ ReadQuiet /\ PromptQuiet
    /\ dirs \in SUBSET AllDirs /\ dirs0 = dirs
    /\ sysArgv = <<ScriptToken>>
    /\ BootQuiet

BootSpec == BootSpecInit /\ [][BootNext]_vars

\* the main process calls the parallel dispatch, in a directory that holds
\* none of the five
ParSpecInit ==
    /\ FileIdle /\ ReadQuiet /\ PromptQuiet
    /\ dirs = {} /\ dirs0 = dirs
    /\ sysArgv = <<ScriptToken>>
    /\ BootQuiet

ParSpec == ParSpecInit /\ [][ParNext]_vars

\* the main process calls curry_main with a mixture of arguments, in a
\* directory that holds none of the five
CurrySpecInit ==
    /\ FileIdle /\ ReadQuiet /\ PromptQuiet
    /\ dirs = {} /\ dirs0 = dirs
    /\ sysArgv = <<ScriptToken>>
    /\ BootQuiet

CurrySpec == CurrySpecInit /\ [][CurryNext]_vars

====
